---------------------------- MODULE Spec2Model ----------------------------
(* A model of the wiki crawler of pywikicli:                               *)
(*   pywikicli/commands/crawl_command.py  (strategies, WikiCrawlerService) *)
(*   pywikicli/api.py                     (get_page, get_links)            *)
(* The wiki is an external server: each request is answered by one of the  *)
(* responses the server can give, chosen when the request is made.         *)
EXTENDS Integers, Sequences, FiniteSets, TLC

(***************************************************************************)
(* Bounds of the model.                                                    *)
(***************************************************************************)
\* longest list of links one get_links call returns
MaxLinks == 2
\* largest max_depth argument tried
MaxDepth == 2
\* largest limit argument tried
MaxLimit == 3
\* most link titles get_links has collected when a later request of it fails
MaxPartial == 1

\* most result pages the server splits the links of one wiki page into
MaxPages == 2
\* most link titles on one result page
MaxPageLinks == 2

\* longest page title handed to the file sink, in characters
MaxTitleLen == 2
\* most pages handed to one sink
MaxEmits == 2
\* how far the lengths of the contents tried lie from the console's cut
MaxOver == 1

\* most links on a page of the wikis crawled as a whole
MaxOut == 2
\* largest max_depth argument tried on them
MaxHops == 3

\* largest limit the two commands are run with side by side
MaxPairLimit == 2

\* most calls of login and edit_page made on one client
MaxAuthCalls == 3

\* page titles of the wiki
Titles == {"A", "B", "C", "D"}

\* the title crawl() is started from: nothing in the program tells one title
\* from another, so one start title stands for all
StartPages == {"A"}

\* the max_depth / limit arguments tried; click's type=int accepts any integer
DepthArgs == (-1) .. MaxDepth
LimitArgs == (-1) .. MaxLimit

\* the lists of link titles a wiki page can have (repeats allowed)
LinkLists == UNION {[1 .. n -> Titles] : n \in 0 .. MaxLinks}

\* what the server can answer to the request of get_page:
\*   "ok"        a page with a revision
\*   "missing"   the page is flagged missing
\*   "no_query"  a JSON body without the 'query' key
\*   "malformed" a body whose structure differs otherwise (KeyError et al.)
\*   "network"   the request itself fails (raise_for_status, connection)
PageResponses == {"ok", "missing", "no_query", "malformed", "network"}

\* what the server does during one get_links call: it delivers `titles` over
\* the result pages, or a request fails after `titles` have been delivered
LinkServer ==
  {[titles |-> l, failed |-> FALSE] : l \in LinkLists}
    \cup {[titles |-> l, failed |-> TRUE] :
            l \in UNION {[1 .. n -> Titles] : n \in 0 .. MaxPartial}}

\* outcome of processor.process
SinkOutcomes == {"ok", "raise"}

VARIABLES
  strategy,        \* self.strategy: "bfs" | "dfs"
  visited,         \* self.visited
  pages_processed, \* self.pages_processed
  queue,           \* local deque of crawl(): sequence of [page, depth]
  start_page,      \* arguments of the running crawl() call
  max_depth,
  limit,
  links,           \* local `links` of crawl(): the last list get_links returned
  pc,              \* "idle" | "loop" | "returned" | "raised"
  stats,           \* the dict crawl() returned, or NoStats
  \* ---- the calls made so far by the running crawl(), in order ----
  dequeued,        \* entries returned by strategy.get_next
  get_page_calls,  \* [title, resp]: wiki_client.get_page(title) and the server's answer
  process_calls,   \* [title, outcome]: processor.process(title, content)
  get_links_calls, \* [title, depth, ok]: wiki_client.get_links(title)
  add_page_calls,  \* [page, depth, by]: strategy.add_page(queue, page, depth) while expanding `by`
  reused           \* crawl() has been called on this instance before the running call

\* ---- one call of MediaWikiLinkService.get_links (api.py 260-310) ----
VARIABLES
  gl_pc,           \* "idle" | "loop" | "returned" | "raised"
  params,          \* params['plcontinue'] of the request dict, "None" while the key is absent
  continue_param,  \* local continue_param: "None" or the token it carries
  all_links,       \* local all_links
  gl_result,       \* the list get_links returned, <<>> before it returns
  gl_requests,     \* the plcontinue parameter of every request sent, in order
  gl_responses     \* the server's answer to every request, in order

linkVars == <<gl_pc, params, continue_param, all_links, gl_result, gl_requests,
              gl_responses>>

\* ---- the page processors (crawl_command.py 131-177) ----
VARIABLES
  files,           \* the files of output_dir: a function from file name to content
  file_calls,      \* [title, content]: the calls of FileOutputProcessor.process
  console,         \* what click.echo has written, one entry per call of echo
  console_calls    \* [title, content]: the calls of ConsoleOutputProcessor.process

sinkVars == <<files, file_calls, console, console_calls>>

\* ---- the wiki behind the client, where it is one fixed wiki ----
VARIABLES
  wiki             \* title -> [exists, fails, links]: the page is there or missing,
                   \* the request for its links fails or not, the links on it

\* the state outside WikiCrawlerService
outside == <<linkVars, sinkVars, wiki>>

\* ---- the inline crawl of wikibot (wikibot/commands/crawl_command.py 52-108),
\* run with the arguments and the strategy name of the pywikicli crawl ----
VARIABLES
  wikibot_visited,         \* local visited
  wikibot_queue,           \* local queue: sequence of [page, depth]
  wikibot_pages_processed, \* local pages_processed
  wikibot_pc,              \* "idle" | "loop" | "returned" | "raised"
  wikibot_totals,          \* the two totals echoed at lines 103-104, or NoStats
  wikibot_get_page_calls,  \* [title, resp]: client.get_page(page) and the server's answer
  wikibot_emitted,         \* [title, outcome]: the pages saved or displayed (76-84)
  wikibot_get_links_calls  \* [title, depth, ok]: client.get_links(page)

wikibotVars == <<wikibot_visited, wikibot_queue, wikibot_pages_processed, wikibot_pc,
                 wikibot_totals, wikibot_get_page_calls, wikibot_emitted,
                 wikibot_get_links_calls>>

\* ---- the session of a MediaWikiClient (api.py 20-103, 178-238, 357-374) ----
VARIABLES
  credentials,     \* username and password were given to the constructor
  logged_in,       \* MediaWikiAuth._logged_in
  auth_pc,         \* "new": MediaWikiAuth is constructed | "ready": the client is
  auth_calls,      \* number of calls of login and edit_page made by the user
  auth_requests,   \* [kind, authed, answer]: every request of login and edit_page,
                   \* the value of _logged_in when it was sent, the server's answer
  last_edit        \* the last call of edit_page, or NoEdit: is_authenticated() when
                   \* it was called, what login() returned to it, the position of
                   \* its first request in auth_requests, how it ended

authVars == <<credentials, logged_in, auth_pc, auth_calls, auth_requests, last_edit>>

vars == <<strategy, visited, pages_processed, queue, start_page, max_depth, limit,
          links, pc, stats, dequeued, get_page_calls, process_calls,
          get_links_calls, add_page_calls, reused, outside, wikibotVars, authVars>>

NoStats == [pages_processed |-> -1, pages_discovered |-> -1]

NoEdit == [was_authenticated |-> FALSE, login |-> "not called", first |-> 1,
           result |-> "none"]

Range(s) == {s[i] : i \in DOMAIN s}

(***************************************************************************)
(* Frontier strategies (crawl_command.py 50-111).  get_next returns the    *)
(* entry removed and the queue that is left.                               *)
(***************************************************************************)
\* a get_next that reads the head of the deque and leaves it there
BreadthFirst_get_next_Peek(q) == [entry |-> Head(q), rest |-> q]

\* a get_next that reads the wrong end of the deque
BreadthFirst_get_next_Lifo(q) == [entry |-> q[Len(q)], rest |-> SubSeq(q, 1, Len(q) - 1)]

BreadthFirst_get_next(q) == [entry |-> Head(q), rest |-> Tail(q)]

BreadthFirst_add_page(q, page, depth) == Append(q, [page |-> page, depth |-> depth])

\* a get_next that reads the wrong end of the deque
DepthFirst_get_next_Fifo(q) == [entry |-> Head(q), rest |-> Tail(q)]

DepthFirst_get_next(q) == [entry |-> q[Len(q)], rest |-> SubSeq(q, 1, Len(q) - 1)]

\* an add_page that inserts at the head of the deque
DepthFirst_add_page_Front(q, page, depth) == <<[page |-> page, depth |-> depth]>> \o q

DepthFirst_add_page(q, page, depth) == Append(q, [page |-> page, depth |-> depth])

\* dynamic dispatch on self.strategy
get_next(q) ==
  IF strategy = "bfs" THEN BreadthFirst_get_next(q) ELSE DepthFirst_get_next(q)

add_page(q, page, depth) ==
  IF strategy = "bfs" THEN BreadthFirst_add_page(q, page, depth)
  ELSE DepthFirst_add_page(q, page, depth)

(***************************************************************************)
(* MediaWikiPageService.get_page (api.py 130-176) as a function of the     *)
(* server's answer: the content, None, or a re-raised exception.           *)
(***************************************************************************)
get_page(resp) ==
  CASE resp = "ok"        -> "content"
    [] resp = "missing"   -> "None"
    [] resp = "no_query"  -> "None"
    [] resp = "malformed" -> "raise"
    [] resp = "network"   -> "raise"

(***************************************************************************)
(* MediaWikiLinkService.get_links (api.py 260-310) as a function of what   *)
(* the server does: the list of all titles, or the re-raised exception     *)
(* (all_links, collected so far, is dropped).                              *)
(***************************************************************************)
\* a get_links that returns what it has collected when a request fails
get_links_Partial(b) == [raised |-> FALSE, value |-> b.titles]

get_links(b) ==
  IF b.failed THEN [raised |-> TRUE, value |-> <<>>]
  ELSE [raised |-> FALSE, value |-> b.titles]

(***************************************************************************)
(* WikiCrawlerService.crawl (crawl_command.py 201-248)                     *)
(***************************************************************************)
\* a crawl that catches the processor's exception and goes on
SinkFailed_Caught(out) == FALSE

\* line 230: processor.process is called outside any try, its exception
\* leaves crawl()
SinkFailed(out) == out = "raise"

\* a loop condition that lets one page too many through
LoopCondition_OffByOne(q, processed, lim) == q # <<>> /\ processed <= lim

\* a loop condition that forgets the limit
LoopCondition_NoLimit(q, processed, lim) == q # <<>>

\* line 217: while queue and self.pages_processed < limit
LoopCondition(q, processed, lim) == q # <<>> /\ processed < lim

\* a crawl that does not test for None
IsNotFound_Never(content) == FALSE

\* line 223: if content is None
IsNotFound(content) == content = "None"

\* a depth test that also expands pages at max_depth
ShouldExpand_Inclusive(cur_depth, md) == cur_depth <= md

\* line 233: if cur_depth < max_depth
ShouldExpand(cur_depth, md) == cur_depth < md

\* a crawl that does not test membership in visited
IsNew_Always(link, vis) == TRUE

\* line 238: if link not in self.visited
IsNew(link, vis) == link \notin vis

\* a crawl that enqueues links at the depth of the page they are found on
ChildDepth_Same(cur_depth) == cur_depth

\* line 240: the depth given to a newly discovered link
ChildDepth(cur_depth) == cur_depth + 1

\* a link loop that stops discovering once `limit` titles are known
RECURSIVE AddLinks_Capped(_, _, _, _, _, _)
AddLinks_Capped(ls, vis, q, calls, page, cur_depth) ==
  IF ls = <<>> \/ Cardinality(vis) >= limit
  THEN [visited |-> vis, queue |-> q, calls |-> calls]
  ELSE LET link == Head(ls) IN
       IF link \notin vis
       THEN AddLinks_Capped(Tail(ls), vis \cup {link},
                            Append(q, [page |-> link, depth |-> cur_depth + 1]),
                            Append(calls, [page |-> link, depth |-> cur_depth + 1,
                                           by |-> page]),
                            page, cur_depth)
       ELSE AddLinks_Capped(Tail(ls), vis, q, calls, page, cur_depth)

\* lines 237-240: for link in links: ... ; the visited set, the queue and the
\* add_page calls after the loop
RECURSIVE AddLinks(_, _, _, _, _, _)
AddLinks(ls, vis, q, calls, page, cur_depth) ==
  IF ls = <<>> THEN [visited |-> vis, queue |-> q, calls |-> calls]
  ELSE LET link == Head(ls) IN
       IF IsNew(link, vis)
       THEN AddLinks(Tail(ls), vis \cup {link},
                     add_page(q, link, ChildDepth(cur_depth)),
                     Append(calls, [page |-> link, depth |-> ChildDepth(cur_depth),
                                    by |-> page]),
                     page, cur_depth)
       ELSE AddLinks(Tail(ls), vis, q, calls, page, cur_depth)

\* statistics that leave the start page out of the discovered count
CrawlStats_NoStart(processed, vis) ==
  [pages_processed |-> processed, pages_discovered |-> Cardinality(vis) - 1]

\* lines 245-248: the returned statistics
CrawlStats(processed, vis) ==
  [pages_processed |-> processed, pages_discovered |-> Cardinality(vis)]

\* no call of get_links is running
GetLinksIdle ==
  /\ gl_pc = "idle"
  /\ params = "None"
  /\ continue_param = "None"
  /\ all_links = <<>>
  /\ gl_result = <<>>
  /\ gl_requests = <<>>
  /\ gl_responses = <<>>

\* the processors just constructed: an empty output directory, nothing echoed
SinksNew ==
  /\ files = <<>>
  /\ file_calls = <<>>
  /\ console = <<>>
  /\ console_calls = <<>>

\* the command of wikibot has not been run
WikibotIdle ==
  /\ wikibot_visited = {}
  /\ wikibot_queue = <<>>
  /\ wikibot_pages_processed = 0
  /\ wikibot_pc = "idle"
  /\ wikibot_totals = NoStats
  /\ wikibot_get_page_calls = <<>>
  /\ wikibot_emitted = <<>>
  /\ wikibot_get_links_calls = <<>>

\* MediaWikiAuth.__init__ (api.py 26-42)
AuthNew ==
  /\ logged_in = FALSE
  /\ auth_pc = "new"
  /\ auth_calls = 0
  /\ auth_requests = <<>>
  /\ last_edit = NoEdit

\* __init__ (186-199): the crawler, the client and the processors after
\* construction
Constructed ==
  /\ strategy \in {"bfs", "dfs"}
  /\ visited = {}
  /\ pages_processed = 0
  /\ queue = <<>>
  /\ start_page = ""
  /\ max_depth = 0
  /\ limit = 0
  /\ links = <<>>
  /\ pc = "idle"
  /\ stats = NoStats
  /\ dequeued = <<>>
  /\ get_page_calls = <<>>
  /\ process_calls = <<>>
  /\ get_links_calls = <<>>
  /\ add_page_calls = <<>>
  /\ reused = FALSE
  /\ GetLinksIdle
  /\ SinksNew
  /\ WikibotIdle
  /\ AuthNew

\* the titles of the wikis crawled as a whole, in the order used to lay out links
TitleOrder == <<"A", "B", "C", "D", "E", "F">>

WikiTitles == Range(TitleOrder)

\* a wiki of which nothing is fixed: the server answers as it likes
AnyWiki == [t \in WikiTitles |-> [exists |-> TRUE, fails |-> FALSE, links |-> <<>>]]

\* the state after construction, the wiki left open
Init ==
  /\ Constructed
  /\ wiki = AnyWiki
  /\ credentials = FALSE

\* a setup that keeps the visited set of the instance
CrawlSetup_KeepVisited(sp, md, lim) ==
  /\ start_page' = sp
  /\ max_depth' = md
  /\ limit' = lim
  /\ visited' = visited \cup {sp}
  /\ queue' = <<[page |-> sp, depth |-> 0]>>
  /\ pages_processed' = 0
  /\ links' = <<>>
  /\ stats' = NoStats
  /\ pc' = "loop"
  /\ dequeued' = <<>>
  /\ get_page_calls' = <<>>
  /\ process_calls' = <<>>
  /\ get_links_calls' = <<>>
  /\ add_page_calls' = <<>>
  /\ UNCHANGED strategy

\* a setup that does not put the start page in visited
CrawlSetup_NoSeed(sp, md, lim) ==
  /\ start_page' = sp
  /\ max_depth' = md
  /\ limit' = lim
  /\ visited' = {}
  /\ queue' = <<[page |-> sp, depth |-> 0]>>
  /\ pages_processed' = 0
  /\ links' = <<>>
  /\ stats' = NoStats
  /\ pc' = "loop"
  /\ dequeued' = <<>>
  /\ get_page_calls' = <<>>
  /\ process_calls' = <<>>
  /\ get_links_calls' = <<>>
  /\ add_page_calls' = <<>>
  /\ UNCHANGED strategy

\* lines 201-215: a call of crawl(sp, md, lim) starts with its own locals
\* (queue, links: nothing returned yet, no call made yet) and assigns
\* self.visited, queue and self.pages_processed
CrawlSetup(sp, md, lim) ==
  /\ start_page' = sp
  /\ max_depth' = md
  /\ limit' = lim
  /\ visited' = {sp}
  /\ queue' = <<[page |-> sp, depth |-> 0]>>
  /\ pages_processed' = 0
  /\ links' = <<>>
  /\ stats' = NoStats
  /\ pc' = "loop"
  /\ dequeued' = <<>>
  /\ get_page_calls' = <<>>
  /\ process_calls' = <<>>
  /\ get_links_calls' = <<>>
  /\ add_page_calls' = <<>>
  /\ UNCHANGED strategy

\* crawl(sp, md, lim) is called on the instance just constructed
Crawl(sp, md, lim) ==
  /\ pc = "idle"
  /\ CrawlSetup(sp, md, lim)
  /\ UNCHANGED reused
  /\ UNCHANGED outside
  /\ UNCHANGED wikibotVars
  /\ UNCHANGED authVars

\* crawl(sp, md, lim) is called again on an instance whose last call returned
CrawlAgainAfterReturn(sp, md, lim) ==
  /\ pc = "returned"
  /\ CrawlSetup(sp, md, lim)
  /\ reused' = TRUE
  /\ UNCHANGED outside
  /\ UNCHANGED wikibotVars
  /\ UNCHANGED authVars

\* crawl(sp, md, lim) is called again on an instance whose last call raised
CrawlAgainAfterRaise(sp, md, lim) ==
  /\ pc = "raised"
  /\ CrawlSetup(sp, md, lim)
  /\ reused' = TRUE
  /\ UNCHANGED outside
  /\ UNCHANGED wikibotVars
  /\ UNCHANGED authVars

\* lines 217-242: one iteration of the while loop, where the server answers
\* the request for page t with one of PR[t], the request for its links with
\* one of LS[t], and processor.process ends as one of SO
IterateOver(PR, SO, LS) ==
  /\ pc = "loop"
  /\ LoopCondition(queue, pages_processed, limit)
  /\ LET nxt == get_next(queue)
         page == nxt.entry.page
         cur_depth == nxt.entry.depth
     IN
     /\ dequeued' = Append(dequeued, nxt.entry)
     /\ \E resp \in PR[page] :
          LET content == get_page(resp) IN
          /\ get_page_calls' = Append(get_page_calls, [title |-> page, resp |-> resp])
          /\ IF content = "raise" THEN
               \* the exception leaves crawl()
               /\ pc' = "raised"
               /\ queue' = nxt.rest
               /\ UNCHANGED <<visited, pages_processed, links, process_calls,
                              get_links_calls, add_page_calls>>
             ELSE IF IsNotFound(content) THEN
               \* lines 223-225: skip
               /\ pc' = "loop"
               /\ queue' = nxt.rest
               /\ UNCHANGED <<visited, pages_processed, links, process_calls,
                              get_links_calls, add_page_calls>>
             ELSE
               /\ pages_processed' = pages_processed + 1
               /\ \E out \in SO :
                    /\ process_calls' = Append(process_calls,
                                               [title |-> page, outcome |-> out])
                    /\ IF SinkFailed(out) THEN
                         /\ pc' = "raised"
                         /\ queue' = nxt.rest
                         /\ UNCHANGED <<visited, links, get_links_calls, add_page_calls>>
                       ELSE IF ~ShouldExpand(cur_depth, max_depth) THEN
                         /\ pc' = "loop"
                         /\ queue' = nxt.rest
                         /\ UNCHANGED <<visited, links, get_links_calls, add_page_calls>>
                       ELSE
                         \E b \in LS[page] :
                           LET got == get_links(b)
                               r == AddLinks(got.value, visited, nxt.rest,
                                             add_page_calls, page, cur_depth)
                           IN
                           /\ get_links_calls' = Append(get_links_calls,
                                [title |-> page, depth |-> cur_depth, ok |-> ~b.failed])
                           /\ pc' = "loop"
                           /\ IF got.raised THEN
                                \* caught at line 241
                                /\ queue' = nxt.rest
                                /\ UNCHANGED <<visited, links, add_page_calls>>
                              ELSE
                                /\ links' = got.value
                                /\ visited' = r.visited
                                /\ queue' = r.queue
                                /\ add_page_calls' = r.calls
  /\ UNCHANGED <<strategy, start_page, max_depth, limit, stats, reused, outside>>

\* one iteration of the loop against a server that answers as it likes
Iterate ==
  /\ IterateOver([t \in Titles |-> PageResponses], SinkOutcomes,
                 [t \in Titles |-> LinkServer])
  /\ UNCHANGED wikibotVars
  /\ UNCHANGED authVars

\* lines 244-248: the loop condition is false, crawl() returns the statistics
ReturnStats ==
  /\ pc = "loop"
  /\ ~LoopCondition(queue, pages_processed, limit)
  /\ stats' = CrawlStats(pages_processed, visited)
  /\ pc' = "returned"
  /\ UNCHANGED <<strategy, visited, pages_processed, queue, start_page, max_depth,
                 limit, links, dequeued, get_page_calls, process_calls,
                 get_links_calls, add_page_calls, reused, outside>>

\* crawl() returns
Return ==
  /\ ReturnStats
  /\ UNCHANGED wikibotVars
  /\ UNCHANGED authVars

Next ==
  \/ \E sp \in StartPages, md \in DepthArgs, lim \in LimitArgs : Crawl(sp, md, lim)
  \/ Iterate
  \/ Return

Spec == Init /\ [][Next]_vars

\* the same instance is used for further crawl() calls
NextReuse ==
  \/ Next
  \/ \E sp \in StartPages, md \in DepthArgs, lim \in LimitArgs :
       CrawlAgainAfterReturn(sp, md, lim)
  \/ \E sp \in StartPages, md \in DepthArgs, lim \in LimitArgs :
       CrawlAgainAfterRaise(sp, md, lim)

SpecReuse == Init /\ [][NextReuse]_vars

(***************************************************************************)
(* The crawl of one fixed wiki: every request for a page or for its links  *)
(* is answered from `wiki`, and the processor does not fail.               *)
(***************************************************************************)
\* the position of a title in TitleOrder
Index(t) == CHOOSE i \in DOMAIN TitleOrder : TitleOrder[i] = t

\* the lists of at most MaxOut different titles of T, in the order of TitleOrder
OrderedLists(T) ==
  {l \in UNION {[1 .. n -> T] : n \in 0 .. MaxOut} :
     \A i, j \in DOMAIN l : i < j => Index(l[i]) < Index(l[j])}

\* the lists of at most MaxOut different titles of T, in any order
DistinctLists(T) ==
  {l \in UNION {[1 .. n -> T] : n \in 0 .. MaxOut} :
     \A i, j \in DOMAIN l : l[i] = l[j] => i = j}

\* a page that is there, with links l that can be fetched
PageWith(l) == [exists |-> TRUE, fails |-> FALSE, links |-> l]

\* the wikis of six pages in which every page is there, every request for
\* links succeeds and every page links to at most MaxOut pages after it in
\* TitleOrder: sequences of the pages' link lists, first i pages.  A page
\* that no page links to is left without links: no crawl from A gets there.
RECURSIVE ForwardLinks(_)
ForwardLinks(i) ==
  IF i = 0 THEN {<<>>}
  ELSE UNION
         {{Append(w, l) :
             l \in IF i = 1 \/ \E j \in 1 .. i - 1 : TitleOrder[i] \in Range(w[j])
                   THEN OrderedLists({t \in WikiTitles : Index(t) > i})
                   ELSE {<<>>}} :
            w \in ForwardLinks(i - 1)}

ForwardWikis ==
  {[t \in WikiTitles |-> PageWith(w[Index(t)])] : w \in ForwardLinks(Len(TitleOrder))}

\* the titles of the small wikis
SmallTitles == {"A", "B", "C"}

\* what a page of a small wiki can be: missing, there with links that cannot
\* be fetched, or there with any list of different titles
SmallPages ==
  {[exists |-> FALSE, fails |-> FALSE, links |-> <<>>],
   [exists |-> TRUE, fails |-> TRUE, links |-> <<>>]}
    \cup {PageWith(l) : l \in DistinctLists(SmallTitles)}

\* the wikis of three pages, links in any direction (the other titles are
\* pages nothing links to)
SmallWikis ==
  {[t \in WikiTitles |-> IF t \in SmallTitles THEN w[t] ELSE PageWith(<<>>)] :
     w \in [SmallTitles -> SmallPages]}

Wikis == ForwardWikis \cup SmallWikis

\* the state after construction, in front of one of the wikis
InitWiki ==
  /\ Constructed
  /\ wiki \in Wikis
  /\ credentials = FALSE

\* the answer of the wiki to get_page's request for t
WikiPage(t) == IF wiki[t].exists THEN "ok" ELSE "missing"

\* what the wiki does during get_links(t)
WikiLinks(t) == [titles |-> wiki[t].links, failed |-> wiki[t].fails]

\* a limit no crawl of the wiki reaches before the frontier is empty
NoLimit == Cardinality(WikiTitles)

\* crawl("A", md, lim) on the instance just constructed
CrawlWiki(md, lim) == Crawl("A", md, lim)

\* one iteration of the loop against the wiki
IterateWiki ==
  /\ IterateOver([t \in WikiTitles |-> {WikiPage(t)}], {"ok"},
                 [t \in WikiTitles |-> {WikiLinks(t)}])
  /\ UNCHANGED wikibotVars
  /\ UNCHANGED authVars

NextWiki ==
  \/ \E md \in 0 .. MaxHops, lim \in {MaxLimit, NoLimit} : CrawlWiki(md, lim)
  \/ IterateWiki
  \/ Return

SpecWiki == InitWiki /\ [][NextWiki]_vars

(***************************************************************************)
(* MediaWikiLinkService.get_links, request by request (api.py 260-310;     *)
(* wikibot/api.py 195-245 is the same code).                               *)
(***************************************************************************)
\* continuation tokens the server hands out
Tokens == {"t1", "t2"}

\* the titles that appear on result pages
LinkTargets == {"B", "C"}

\* the link titles of one result page
PageLinkLists == UNION {[1 .. n -> LinkTargets] : n \in 0 .. MaxPageLinks}

\* a JSON answer with data['query']['pages']: the first page is flagged
\* missing or not, has a 'links' key or not, and the answer carries
\* data['continue']['plcontinue'] = cont or no 'continue' key (cont = "None")
JsonResponses(conts) ==
  {[kind |-> "json", missing |-> m, has_links |-> TRUE, links |-> l, cont |-> c] :
     m \in BOOLEAN, l \in PageLinkLists, c \in conts}
    \cup {[kind |-> "json", missing |-> m, has_links |-> FALSE, links |-> <<>>,
           cont |-> c] : m \in BOOLEAN, c \in conts}

\* an answer that makes the try block raise: the request fails ("network":
\* raise_for_status, connection) or the body lacks a key that is read
\* ("malformed": no 'query', no 'pages', 'continue' without 'plcontinue')
ErrorResponses ==
  {[kind |-> k, missing |-> FALSE, has_links |-> FALSE, links |-> <<>>, cont |-> "None"] :
     k \in {"network", "malformed"}}

\* what the server can answer to the n-th request of a call: it splits a
\* page's links into at most MaxPages result pages, so the MaxPages-th
\* answer carries no token
LinkResponses(n) ==
  JsonResponses(IF n < MaxPages THEN Tokens \cup {"None"} ELSE {"None"})
    \cup ErrorResponses

\* lines 284-285: if continue_param: params.update(continue_param)
NextParams(p, cp) == IF cp # "None" THEN cp ELSE p

\* a filter that forgets the 'missing' flag
PageTitles_Missing(r) == IF r.has_links THEN r.links ELSE <<>>

\* lines 296-298: the titles one answer contributes
PageTitles(r) == IF ~r.missing /\ r.has_links THEN r.links ELSE <<>>

\* an extend that puts the new titles in front
Extend_Prepend(all, r) == PageTitles(r) \o all

\* line 298: all_links.extend(...)
Extend(all, r) == all \o PageTitles(r)

\* line 301: 'continue' in data
HasContinue(r) == r.cont # "None"

\* lines 270-281: get_links(title) is called
GetLinksCall ==
  /\ gl_pc = "idle"
  /\ gl_pc' = "loop"
  /\ params' = "None"
  /\ continue_param' = "None"
  /\ all_links' = <<>>
  /\ UNCHANGED <<gl_result, gl_requests, gl_responses>>
  /\ UNCHANGED <<strategy, visited, pages_processed, queue, start_page, max_depth,
                 limit, links, pc, stats, dequeued, get_page_calls, process_calls,
                 get_links_calls, add_page_calls, reused, sinkVars, wiki,
                 wikibotVars, authVars>>

\* lines 283-310: one iteration of `while True`, up to the break and the
\* return, or up to the exception that is logged and raised again
GetLinksRequest ==
  /\ gl_pc = "loop"
  /\ LET p == NextParams(params, continue_param) IN
     /\ params' = p
     /\ gl_requests' = Append(gl_requests, p)
     /\ \E r \in LinkResponses(Len(gl_requests) + 1) :
          /\ gl_responses' = Append(gl_responses, r)
          /\ IF r.kind # "json" THEN
               /\ gl_pc' = "raised"
               /\ UNCHANGED <<continue_param, all_links, gl_result>>
             ELSE
               /\ all_links' = Extend(all_links, r)
               /\ IF HasContinue(r) THEN
                    /\ continue_param' = r.cont
                    /\ gl_pc' = "loop"
                    /\ UNCHANGED gl_result
                  ELSE
                    /\ gl_pc' = "returned"
                    /\ gl_result' = all_links'
                    /\ UNCHANGED continue_param
  /\ UNCHANGED <<strategy, visited, pages_processed, queue, start_page, max_depth,
                 limit, links, pc, stats, dequeued, get_page_calls, process_calls,
                 get_links_calls, add_page_calls, reused, sinkVars, wiki,
                 wikibotVars, authVars>>

NextLinks ==
  \/ GetLinksCall
  \/ GetLinksRequest

SpecLinks == Init /\ [][NextLinks]_vars

(***************************************************************************)
(* The page processors (crawl_command.py 131-177; wikibot's crawl_command  *)
(* 76-84 has the same two branches inline).  Strings are sequences of      *)
(* characters.                                                             *)
(***************************************************************************)
\* line 177: the console shows at most this many characters of a page
ConsoleLimit == 500

\* the characters of the titles handed to the file sink
TitleChars == {"a", " ", "/"}

\* the titles handed to the file sink
FileTitles == UNION {[1 .. n -> TitleChars] : n \in 1 .. MaxTitleLen}

\* the i-th character of every content tried
ContentChar(i) == <<"a", "b", "c", "d", "e", "f", "g">>[(i % 7) + 1]

\* page contents: the empty one and those whose length is near ConsoleLimit
Contents ==
  {[i \in 1 .. n |-> ContentChar(i)] :
     n \in {0} \cup ((ConsoleLimit - MaxOver) .. (ConsoleLimit + MaxOver))}

\* str.replace(old, new) for one-character strings
Replace(str, old, new) == [i \in DOMAIN str |-> IF str[i] = old THEN new ELSE str[i]]

\* line 155: page_title.replace(' ', '_').replace('/', '_') + '.txt'
safe_name(page_title) ==
  Replace(Replace(page_title, " ", "_"), "/", "_") \o <<".", "t", "x", "t">>

\* lines 147-159: FileOutputProcessor.process(page_title, content); open(path,
\* 'w') creates the file or empties the one that is there.  crawl() hands
\* over each title once.
FileProcess(page_title, content) ==
  /\ Len(file_calls) < MaxEmits
  /\ \A k \in DOMAIN file_calls : file_calls[k].title # page_title
  /\ files' = [n \in DOMAIN files \cup {safe_name(page_title)} |->
                 IF n = safe_name(page_title) THEN content ELSE files[n]]
  /\ file_calls' = Append(file_calls, [title |-> page_title, content |-> content])
  /\ UNCHANGED <<console, console_calls>>
  /\ UNCHANGED <<strategy, visited, pages_processed, queue, start_page, max_depth,
                 limit, links, pc, stats, dequeued, get_page_calls, process_calls,
                 get_links_calls, add_page_calls, reused, linkVars, wiki,
                 wikibotVars, authVars>>

\* the three dots that mark a cut
Ellipsis == <<".", ".", ".">>

\* line 175: the header echoed before the content
Header(page_title) == <<"\n=== Page: ", page_title, " ===">>

\* a body that also cuts a content of exactly ConsoleLimit characters
ConsoleBody_AtLimit(content) ==
  IF Len(content) >= ConsoleLimit
  THEN SubSeq(content, 1, ConsoleLimit) \o Ellipsis ELSE content

\* line 177: content[:500] + "..." if len(content) > 500 else content
ConsoleBody(content) ==
  IF Len(content) > ConsoleLimit
  THEN SubSeq(content, 1, ConsoleLimit) \o Ellipsis ELSE content

\* lines 167-177: ConsoleOutputProcessor.process(page_title, content)
ConsoleProcess(page_title, content) ==
  /\ Len(console_calls) < MaxEmits
  /\ console' = Append(Append(console, Header(page_title)), ConsoleBody(content))
  /\ console_calls' = Append(console_calls, [title |-> page_title, content |-> content])
  /\ UNCHANGED <<files, file_calls>>
  /\ UNCHANGED <<strategy, visited, pages_processed, queue, start_page, max_depth,
                 limit, links, pc, stats, dequeued, get_page_calls, process_calls,
                 get_links_calls, add_page_calls, reused, linkVars, wiki,
                 wikibotVars, authVars>>

\* a crawl that writes its pages to files
NextFile == \E t \in FileTitles, c \in Contents : FileProcess(t, c)

SpecFile == Init /\ [][NextFile]_vars

\* a crawl that writes its pages to the console
NextConsole == \E t \in Titles, c \in Contents : ConsoleProcess(t, c)

SpecConsole == Init /\ [][NextConsole]_vars

(***************************************************************************)
(* The inline crawl of wikibot (wikibot/commands/crawl_command.py 52-108)  *)
(* beside WikiCrawlerService.crawl.  Both are started with the same        *)
(* arguments, and the server answers the n-th request of the one as it     *)
(* answers the n-th request of the other.                                  *)
(***************************************************************************)
\* WikiClient.get_page (wikibot/api.py 84-130) as a function of the server's
\* answer
wikibot_get_page(resp) ==
  CASE resp = "network"   -> "raise"    \* 104-105, re-raised at 130
    [] resp = "no_query"  -> "None"     \* 112-114
    [] resp = "missing"   -> "None"     \* 121-123
    [] resp = "malformed" -> "raise"    \* 117-125, re-raised at 130
    [] resp = "ok"        -> "content"  \* 125-126

\* WikiClient.get_links (wikibot/api.py 195-245) as a function of what the
\* server does: return all_links at 241, or the re-raise at 245
wikibot_get_links(b) ==
  IF b.failed THEN [raised |-> TRUE, value |-> <<>>]
  ELSE [raised |-> FALSE, value |-> b.titles]

\* a loop that pops the right end for bfs and the left end for dfs
wikibot_next_Swapped(q) ==
  IF strategy = "bfs" THEN [entry |-> q[Len(q)], rest |-> SubSeq(q, 1, Len(q) - 1)]
  ELSE [entry |-> Head(q), rest |-> Tail(q)]

\* lines 62-65: queue.popleft() for 'bfs', queue.pop() otherwise
wikibot_next(q) ==
  IF strategy = "bfs" THEN [entry |-> Head(q), rest |-> Tail(q)]
  ELSE [entry |-> q[Len(q)], rest |-> SubSeq(q, 1, Len(q) - 1)]

\* lines 91-94: for link in links: if link not in visited: visited.add(link);
\* queue.append((link, cur_depth+1))
RECURSIVE wikibot_add_links(_, _, _, _)
wikibot_add_links(ls, vis, q, cur_depth) ==
  IF ls = <<>> THEN [visited |-> vis, queue |-> q]
  ELSE IF Head(ls) \notin vis
       THEN wikibot_add_links(Tail(ls), vis \cup {Head(ls)},
                              Append(q, [page |-> Head(ls), depth |-> cur_depth + 1]),
                              cur_depth)
       ELSE wikibot_add_links(Tail(ls), vis, q, cur_depth)

\* lines 53-55
WikibotSetup(sp) ==
  /\ wikibot_visited' = {sp}
  /\ wikibot_queue' = <<[page |-> sp, depth |-> 0]>>
  /\ wikibot_pages_processed' = 0
  /\ wikibot_pc' = "loop"
  /\ wikibot_totals' = NoStats
  /\ wikibot_get_page_calls' = <<>>
  /\ wikibot_emitted' = <<>>
  /\ wikibot_get_links_calls' = <<>>

\* lines 98-104: the loop is over, the totals are echoed
WikibotReport ==
  /\ wikibot_totals' = [pages_processed |-> wikibot_pages_processed,
                        pages_discovered |-> Cardinality(wikibot_visited)]
  /\ wikibot_pc' = "returned"
  /\ UNCHANGED <<wikibot_visited, wikibot_queue, wikibot_pages_processed,
                 wikibot_get_page_calls, wikibot_emitted, wikibot_get_links_calls>>

\* lines 61-96: one iteration of the loop, where the server answers the
\* request for the page with resp, saving or displaying it ends as out, and
\* the server does b while the links are fetched
WikibotIterate(resp, out, b) ==
  LET nxt == wikibot_next(wikibot_queue)
      page == nxt.entry.page
      cur_depth == nxt.entry.depth
      content == wikibot_get_page(resp)
      got == wikibot_get_links(b)
      r == wikibot_add_links(got.value, wikibot_visited, nxt.rest, cur_depth)
  IN
  /\ wikibot_get_page_calls' = Append(wikibot_get_page_calls,
                                      [title |-> page, resp |-> resp])
  /\ wikibot_queue' =
       IF content \notin {"raise", "None"} /\ out # "raise" /\ cur_depth < max_depth
          /\ ~got.raised
       THEN r.queue ELSE nxt.rest
  /\ wikibot_totals' = NoStats
  /\ IF content = "raise" THEN
       \* caught at line 106
       /\ wikibot_pc' = "raised"
       /\ UNCHANGED <<wikibot_visited, wikibot_pages_processed, wikibot_emitted,
                      wikibot_get_links_calls>>
     ELSE IF content = "None" THEN
       \* lines 69-71
       /\ wikibot_pc' = "loop"
       /\ UNCHANGED <<wikibot_visited, wikibot_pages_processed, wikibot_emitted,
                      wikibot_get_links_calls>>
     ELSE
       /\ wikibot_pages_processed' = wikibot_pages_processed + 1
       /\ wikibot_emitted' = Append(wikibot_emitted, [title |-> page, outcome |-> out])
       /\ IF out = "raise" THEN
            \* open / write at 79-80 fails: caught at line 106
            /\ wikibot_pc' = "raised"
            /\ UNCHANGED <<wikibot_visited, wikibot_get_links_calls>>
          ELSE IF ~(cur_depth < max_depth) THEN
            /\ wikibot_pc' = "loop"
            /\ UNCHANGED <<wikibot_visited, wikibot_get_links_calls>>
          ELSE
            /\ wikibot_get_links_calls' =
                 Append(wikibot_get_links_calls,
                        [title |-> page, depth |-> cur_depth, ok |-> ~b.failed])
            /\ wikibot_pc' = "loop"
            /\ wikibot_visited' = IF got.raised THEN wikibot_visited ELSE r.visited

\* the next step of the wikibot command once its loop has been entered
WikibotStep(resp, out, b) ==
  IF wikibot_pc # "loop" THEN UNCHANGED wikibotVars
  ELSE IF wikibot_queue # <<>> /\ wikibot_pages_processed < limit   \* line 60
       THEN WikibotIterate(resp, out, b)
       ELSE WikibotReport

\* what the server has delivered when a request for links fails: nothing yet,
\* or a result page with a title on it
PartialLists == {<<>>} \cup {<<t>> : t \in Titles}

\* both commands are run with the same start page, depth and limit
PairCrawl(sp, md, lim) ==
  /\ pc = "idle"
  /\ wikibot_pc = "idle"
  /\ CrawlSetup(sp, md, lim)
  /\ WikibotSetup(sp)
  /\ UNCHANGED <<reused, outside, authVars>>

\* both loops take a step; the wikibot loop is given the answers the server
\* gave in the step of WikiCrawlerService.crawl
PairIterate ==
  /\ IterateOver([t \in Titles |-> PageResponses], SinkOutcomes,
                 [t \in Titles |-> LinkServer])
  /\ LET resp == get_page_calls'[Len(get_page_calls')].resp
         out == IF Len(process_calls') > Len(process_calls)
                THEN process_calls'[Len(process_calls')].outcome ELSE "ok"
         asked == Len(get_links_calls') > Len(get_links_calls)
         ok == ~asked \/ get_links_calls'[Len(get_links_calls')].ok
     IN
     IF ok
     THEN WikibotStep(resp, out,
                      [titles |-> IF asked THEN links' ELSE <<>>, failed |-> FALSE])
     ELSE \E l \in PartialLists : WikibotStep(resp, out, [titles |-> l, failed |-> TRUE])
  /\ UNCHANGED authVars

\* WikiCrawlerService.crawl returns; the wikibot command takes its next step
PairReturn ==
  /\ ReturnStats
  /\ WikibotStep("ok", "ok", [titles |-> <<>>, failed |-> FALSE])
  /\ UNCHANGED authVars

\* the --limit values the two commands are run with
PairLimitArgs == (-1) .. MaxPairLimit

NextPair ==
  \/ \E sp \in StartPages, md \in DepthArgs, lim \in PairLimitArgs :
       PairCrawl(sp, md, lim)
  \/ PairIterate
  \/ PairReturn

SpecPair == Init /\ [][NextPair]_vars

(***************************************************************************)
(* crawl_command after crawler.crawl has returned (crawl_command.py        *)
(* 303-311): which of the two completion lines is echoed.                  *)
(***************************************************************************)
\* lines 305-308: "stopped" stands for 'Crawl stopped after reaching limit of
\* {limit} pages', "complete" for 'Crawl complete. No more pages to process
\* within depth {depth}'
CompletionMessage(st, lim) ==
  IF st.pages_processed >= lim THEN "stopped" ELSE "complete"

(***************************************************************************)
(* Login and edit_page of a MediaWikiClient (api.py 44-103, 178-238,       *)
(* 357-374).  The server's answer to one request is                        *)
(*   "unreachable"  the request raises before any answer (connection)      *)
(*   "bad"          an answer with an HTTP error status, or a body without *)
(*                  the keys the code reads                                *)
(*   "ok"           the token asked for / an edit without 'error'          *)
(*   "Success", "Failed"   the result of action=login                      *)
(*   "error"        an answer to action=edit that carries 'error'          *)
(***************************************************************************)
TokenAnswers == {"unreachable", "bad", "ok"}
LoginAnswers == {"unreachable", "bad", "Failed", "Success"}
EditAnswers == {"unreachable", "bad", "error", "ok"}

Request(kind, authed, answer) == [kind |-> kind, authed |-> authed, answer |-> answer]

\* a login that leaves _logged_in as it is when a request raises
login_KeepOnError(a1, a2) ==
  IF ~credentials THEN [requests |-> <<>>, logged_in |-> logged_in, value |-> FALSE]
  ELSE IF a1 # "ok"
  THEN [requests |-> <<Request("login_token", logged_in, a1)>>,
        logged_in |-> logged_in, value |-> FALSE]
  ELSE [requests |-> <<Request("login_token", logged_in, a1),
                       Request("login", logged_in, a2)>>,
        logged_in |-> IF a2 \in {"Success", "Failed"} THEN a2 = "Success" ELSE logged_in,
        value |-> a2 = "Success"]

\* MediaWikiAuth.login (44-94), the server answering the token request with a1
\* and the login request with a2: the requests sent, _logged_in afterwards
\* and the value returned
login(a1, a2) ==
  IF ~credentials
  THEN \* 51-53
       [requests |-> <<>>, logged_in |-> logged_in, value |-> FALSE]
  ELSE IF a1 # "ok"
  THEN \* 64-67 raise, 91-94
       [requests |-> <<Request("login_token", logged_in, a1)>>,
        logged_in |-> FALSE, value |-> FALSE]
  ELSE \* 78-89, 91-94
       [requests |-> <<Request("login_token", logged_in, a1),
                       Request("login", logged_in, a2)>>,
        logged_in |-> a2 = "Success", value |-> a2 = "Success"]

\* 190-192: if not is_authenticated(): if not login(): raise
LoginRefused(called, value) == called /\ ~value

\* MediaWikiClient.__init__ (357-374): login is tried when credentials are given
Construct ==
  /\ auth_pc = "new"
  /\ auth_pc' = "ready"
  /\ \E a1 \in TokenAnswers, a2 \in LoginAnswers :
       LET r == login(a1, a2) IN
       /\ IF credentials
          THEN /\ auth_requests' = auth_requests \o r.requests
               /\ logged_in' = r.logged_in
          ELSE UNCHANGED <<auth_requests, logged_in>>
  /\ UNCHANGED <<credentials, auth_calls, last_edit>>
  /\ UNCHANGED <<strategy, visited, pages_processed, queue, start_page, max_depth,
                 limit, links, pc, stats, dequeued, get_page_calls, process_calls,
                 get_links_calls, add_page_calls, reused, outside, wikibotVars>>

\* MediaWikiClient.login() (376-383) is called
Login ==
  /\ auth_pc = "ready"
  /\ auth_calls < MaxAuthCalls
  /\ auth_calls' = auth_calls + 1
  /\ \E a1 \in TokenAnswers, a2 \in LoginAnswers :
       LET r == login(a1, a2) IN
       /\ auth_requests' = auth_requests \o r.requests
       /\ logged_in' = r.logged_in
  /\ UNCHANGED <<credentials, auth_pc, last_edit>>
  /\ UNCHANGED <<strategy, visited, pages_processed, queue, start_page, max_depth,
                 limit, links, pc, stats, dequeued, get_page_calls, process_calls,
                 get_links_calls, add_page_calls, reused, outside, wikibotVars>>

\* MediaWikiClient.edit_page (407-420) -> MediaWikiPageService.edit_page
\* (178-238) is called
EditPage ==
  /\ auth_pc = "ready"
  /\ auth_calls < MaxAuthCalls
  /\ auth_calls' = auth_calls + 1
  /\ \E a1 \in TokenAnswers, a2 \in LoginAnswers, a3 \in TokenAnswers, a4 \in EditAnswers :
       LET called == ~logged_in                      \* line 190
           r == IF called THEN login(a1, a2)
                ELSE [requests |-> <<>>, logged_in |-> logged_in, value |-> TRUE]
           csrf == Request("csrf_token", r.logged_in, a3)
           edit == Request("edit", r.logged_in, a4)
       IN
       /\ logged_in' = r.logged_in
       /\ IF LoginRefused(called, r.value) THEN
            \* line 192
            /\ auth_requests' = auth_requests \o r.requests
            /\ last_edit' = [was_authenticated |-> ~called,
                             login |-> IF r.value THEN "True" ELSE "False",
                             first |-> Len(auth_requests) + 1, result |-> "raise"]
          ELSE IF a3 # "ok" THEN
            \* 202-205 raise, re-raised at 236-238
            /\ auth_requests' = auth_requests \o r.requests \o <<csrf>>
            /\ last_edit' = [was_authenticated |-> ~called,
                             login |-> IF ~called THEN "not called"
                                       ELSE IF r.value THEN "True" ELSE "False",
                             first |-> Len(auth_requests) + 1, result |-> "raise"]
          ELSE
            \* 207-234
            /\ auth_requests' = auth_requests \o r.requests \o <<csrf, edit>>
            /\ last_edit' = [was_authenticated |-> ~called,
                             login |-> IF ~called THEN "not called"
                                       ELSE IF r.value THEN "True" ELSE "False",
                             first |-> Len(auth_requests) + 1,
                             result |-> CASE a4 = "ok" -> "True"
                                          [] a4 = "error" -> "False"
                                          [] OTHER -> "raise"]
  /\ UNCHANGED <<credentials, auth_pc>>
  /\ UNCHANGED <<strategy, visited, pages_processed, queue, start_page, max_depth,
                 limit, links, pc, stats, dequeued, get_page_calls, process_calls,
                 get_links_calls, add_page_calls, reused, outside, wikibotVars>>

\* a client constructed with or without credentials
InitAuth ==
  /\ Constructed
  /\ wiki = AnyWiki
  /\ credentials \in BOOLEAN

NextAuth ==
  \/ Construct
  \/ Login
  \/ EditPage

SpecAuth == InitAuth /\ [][NextAuth]_vars

(***************************************************************************)
(* Helpers for the properties                                              *)
(***************************************************************************)
\* the first index of seq whose entry is about title t, 0 if there is none
PosIn(seq, t) ==
  LET I == {i \in DOMAIN seq : seq[i].page = t}
  IN IF I = {} THEN 0 ELSE CHOOSE i \in I : \A j \in I : i <= j

\* the titles passed to add_page so far
AddedTitles == {add_page_calls[i].page : i \in DOMAIN add_page_calls}

\* the get_page calls the server did not answer with "missing"/None
FetchesNotNone == {i \in DOMAIN get_page_calls : get_page(get_page_calls[i].resp) # "None"}

(***************************************************************************)
(* C1  Visited-once.                                                       *)
(***************************************************************************)
\* every title of visited is the start page or was passed to add_page exactly
\* once: the titles ever put in the frontier are pairwise distinct
C1_NoTitleTwice ==
  pc # "idle" =>
    /\ \A i, j \in DOMAIN add_page_calls :
         add_page_calls[i].page = add_page_calls[j].page => i = j
    /\ start_page \notin AddedTitles
    /\ visited = {start_page} \cup AddedTitles

\* a step passes to add_page exactly the titles it adds to visited
C1_EnqueuedWhenFirstVisited ==
  pc # "idle" =>
    /\ Len(add_page_calls') >= Len(add_page_calls)
    /\ {add_page_calls'[i].page :
          i \in (Len(add_page_calls) + 1) .. Len(add_page_calls')} = visited' \ visited
    /\ Len(add_page_calls') - Len(add_page_calls) = Cardinality(visited' \ visited)
    /\ Len(queue') <= Len(queue) + Cardinality(visited' \ visited)

\* C1: no title is passed to add_page more than once, and a title is enqueued
\* only in the step that first adds it to visited, so no title occurs twice in
\* the frontier during a crawl, also when a link list repeats a title or links
\* back to a page already seen.
C1_VisitedOnce == []C1_NoTitleTwice /\ [][C1_EnqueuedWhenFirstVisited]_vars

\* C1 witness: a link list that names one title twice was expanded and the
\* title was enqueued (once)
C1_Witness ==
  /\ pc = "loop"
  /\ Len(links) = 2 /\ links[1] = links[2]
  /\ add_page_calls # <<>>
  /\ add_page_calls[Len(add_page_calls)].page = links[1]
  /\ Len(get_links_calls) = 1

(***************************************************************************)
(* C2  Limit enforcement, the counter.                                     *)
(***************************************************************************)
\* C2: for limit >= 1, pages_processed <= limit in every state of crawl() and
\* in the statistics it returns.
C2_ProcessedWithinLimit ==
  (pc # "idle" /\ limit >= 1) =>
    /\ pages_processed <= limit
    /\ pc = "returned" => stats.pages_processed <= limit

\* C2 witness: crawl() returned because the limit was reached, with entries
\* left in the frontier
C2_Witness ==
  /\ pc = "returned" /\ limit >= 1
  /\ stats.pages_processed = limit
  /\ queue # <<>>

(***************************************************************************)
(* C3  Limit enforcement, the fetches.                                     *)
(***************************************************************************)
\* C3 as stated: get_page is called at most `limit` times within one crawl
C3_FetchesWithinLimit ==
  (pc # "idle" /\ limit >= 1) => Len(get_page_calls) <= limit

\* C3 amended: at most `limit` get_page calls are answered by anything other
\* than not-found (None); a call answered by None is not counted against the
\* limit, so the number of calls can exceed it.
C3_FoundFetchesWithinLimit ==
  (pc # "idle" /\ limit >= 1) => Cardinality(FetchesNotNone) <= limit

\* C3 witness: more get_page calls than `limit`, `limit` of them found
C3_Witness ==
  /\ pc = "returned" /\ limit >= 1
  /\ Len(get_page_calls) > limit
  /\ Cardinality(FetchesNotNone) = limit

(***************************************************************************)
(* C4  Breadth-first order.                                                *)
(***************************************************************************)
\* C4: with BreadthFirstStrategy the depths of the entries get_next returns
\* during one crawl are non-decreasing.
C4_BfsDepthsNonDecreasing ==
  strategy = "bfs" =>
    \A i, j \in DOMAIN dequeued : i < j => dequeued[i].depth <= dequeued[j].depth

\* C4 witness: a breadth-first crawl dequeued an entry of depth 1 after it had
\* enqueued one of depth 2, and got to depth 2 later
C4_Witness ==
  /\ strategy = "bfs"
  /\ \E i, j, k \in DOMAIN dequeued :
       /\ i < j /\ j < k
       /\ dequeued[i].depth = 1 /\ dequeued[j].depth = 1 /\ dequeued[k].depth = 2
       /\ \E c \in DOMAIN add_page_calls :
            add_page_calls[c].by = dequeued[i].page /\ add_page_calls[c].depth = 2

(***************************************************************************)
(* C5  Depth-first order.                                                  *)
(***************************************************************************)
\* the first add_page call that enqueued title t, 0 if there is none
AddIdx(t) == PosIn(add_page_calls, t)

\* the position of title t in the sequence of dequeued entries, 0 if none
DqPos(t) == PosIn(dequeued, t)

\* the pages whose expansion enqueued at least one new title
ExpandedPages == {add_page_calls[i].by : i \in DOMAIN add_page_calls}

\* the first title the expansion of P enqueued
FirstChild(P) ==
  LET I == {i \in DOMAIN add_page_calls : add_page_calls[i].by = P}
  IN add_page_calls[CHOOSE i \in I : \A j \in I : i <= j].page

\* the other titles enqueued by the expansion that enqueued P
Siblings(P) ==
  IF AddIdx(P) = 0 THEN {}
  ELSE {add_page_calls[i].page :
          i \in {k \in DOMAIN add_page_calls :
                   /\ add_page_calls[k].by = add_page_calls[AddIdx(P)].by
                   /\ add_page_calls[k].page # P}}

\* the siblings of P enqueued before P: those still in the frontier when P is
\* dequeued from the tail
EarlierSiblings(P) == {S \in Siblings(P) : AddIdx(S) < AddIdx(P)}

\* C5 as stated: with DepthFirstStrategy, the first-discovered child of an
\* expanded page P is dequeued before any sibling of P is
C5_FirstChildBeforeAnySibling ==
  strategy = "dfs" =>
    \A P \in ExpandedPages : \A S \in Siblings(P) :
      DqPos(S) > 0 => (DqPos(FirstChild(P)) > 0 /\ DqPos(FirstChild(P)) < DqPos(S))

\* C5 amended: with DepthFirstStrategy, the first-discovered child of an
\* expanded page P is dequeued before any sibling of P that was enqueued
\* before P (a sibling enqueued after P leaves the frontier before P does).
C5_FirstChildBeforeEarlierSibling ==
  strategy = "dfs" =>
    \A P \in ExpandedPages : \A S \in EarlierSiblings(P) :
      DqPos(S) > 0 => (DqPos(FirstChild(P)) > 0 /\ DqPos(FirstChild(P)) < DqPos(S))

\* C5 witness: a depth-first crawl expanded P, dequeued P's first child and
\* after it a sibling of P enqueued before P
C5_Witness ==
  /\ strategy = "dfs"
  /\ \E P \in ExpandedPages : \E S \in EarlierSiblings(P) :
       DqPos(S) > 0 /\ DqPos(FirstChild(P)) > 0

(***************************************************************************)
(* C6  Depth correctness.                                                  *)
(***************************************************************************)
\* the page whose expansion first added title t to visited
Parent(t) == add_page_calls[AddIdx(t)].by

\* the number of link hops from the start page along the path by which t was
\* first discovered
RECURSIVE Hops(_)
Hops(t) == IF t = start_page \/ AddIdx(t) = 0 THEN 0 ELSE 1 + Hops(Parent(t))

\* every entry that is or was in the frontier
Entries == Range(queue) \cup Range(dequeued)

\* C6: the depth stored with every frontier entry is the number of link hops
\* along the path by which its title was first discovered (0 for the start
\* page, one more than the discovering page's depth otherwise), whatever
\* depth the title is met at later.
C6_DepthIsHops ==
  pc # "idle" =>
    /\ \A e \in Entries : e.depth = Hops(e.page)
    /\ \A e \in Entries :
         e.page # start_page =>
           \E p \in Range(dequeued) : p.page = Parent(e.page) /\ e.depth = p.depth + 1
    /\ \A e1, e2 \in Entries : e1.page = e2.page => e1.depth = e2.depth

\* C6 witness: a title waiting in the frontier at depth 1 was met again in
\* the links of a page of depth 1 and kept its depth
C6_Witness ==
  /\ pc = "loop"
  /\ get_links_calls # <<>>
  /\ LET c == get_links_calls[Len(get_links_calls)] IN
       /\ c.ok /\ c.depth = 1
       /\ \E e \in Range(queue) : e.page \in Range(links) /\ e.depth = 1

(***************************************************************************)
(* C7  The depth check gates expansion, not fetch.                         *)
(***************************************************************************)
\* C7: for max_depth >= 0, get_links is called only for pages dequeued at a
\* depth below max_depth, every frontier entry has depth <= max_depth, a page
\* dequeued at max_depth is still fetched and, if it exists, passed to the
\* processor; with max_depth = 0 only the start page is dequeued and
\* pages_discovered = 1.
C7_DepthGatesExpansion ==
  (pc # "idle" /\ max_depth >= 0) =>
    /\ \A c \in Range(get_links_calls) :
         c.depth < max_depth /\ [page |-> c.title, depth |-> c.depth] \in Range(dequeued)
    /\ \A e \in Range(queue) : e.depth <= max_depth
    /\ Len(get_page_calls) = Len(dequeued)
    /\ \A i \in DOMAIN dequeued :
         dequeued[i].depth = max_depth =>
           /\ get_page_calls[i].title = dequeued[i].page
           /\ get_page_calls[i].resp = "ok" =>
                \E k \in DOMAIN process_calls : process_calls[k].title = dequeued[i].page
           /\ \A c \in Range(get_links_calls) : c.title # dequeued[i].page
    /\ max_depth = 0 =>
         /\ Len(dequeued) <= 1
         /\ visited = {start_page}
         /\ pc = "returned" => stats.pages_discovered = 1

\* C7 witness: a page dequeued at cur_depth = max_depth >= 1 was fetched and
\* processed, and crawl() returned
C7_Witness ==
  /\ pc = "returned" /\ max_depth >= 1
  /\ \E i \in DOMAIN dequeued :
       /\ dequeued[i].depth = max_depth
       /\ \E k \in DOMAIN process_calls :
            process_calls[k] = [title |-> dequeued[i].page, outcome |-> "ok"]

(***************************************************************************)
(* C8  Not-found skip.                                                     *)
(***************************************************************************)
\* the step is a loop iteration whose get_page call returned None
NotFoundStep ==
  /\ Len(get_page_calls') = Len(get_page_calls) + 1
  /\ get_page(get_page_calls'[Len(get_page_calls')].resp) = "None"

\* what a not-found iteration does
C8_SkipStep ==
  NotFoundStep =>
    /\ process_calls' = process_calls
    /\ pages_processed' = pages_processed
    /\ get_links_calls' = get_links_calls
    /\ add_page_calls' = add_page_calls
    /\ visited' = visited
    /\ get_page_calls'[Len(get_page_calls')].title \in visited'
    /\ pc' = "loop"
    /\ Len(queue') = Len(queue) - 1
    /\ Len(dequeued') = Len(dequeued) + 1
    /\ dequeued'[Len(dequeued')].page = get_page_calls'[Len(get_page_calls')].title
    /\ Range(queue') = Range(queue) \ {dequeued'[Len(dequeued')]}

\* C8: when get_page signals not-found for the dequeued page, the page is not
\* passed to the processor, pages_processed is not incremented, its links are
\* not fetched, visited is unchanged (the title stays in it), nothing is
\* raised and the loop goes on with the rest of the frontier.
C8_NotFoundSkip == [][C8_SkipStep]_vars

\* C8 witness: a page was not found and the loop went on to fetch and process
\* the next frontier entry
C8_Witness ==
  /\ pc = "loop"
  /\ \E i \in DOMAIN get_page_calls :
       /\ get_page_calls[i].resp = "missing"
       /\ i < Len(get_page_calls)
       /\ get_page_calls[i + 1].resp = "ok"
       /\ get_page_calls[i].title \in visited
       /\ \A k \in DOMAIN process_calls : process_calls[k].title # get_page_calls[i].title

(***************************************************************************)
(* C9  CrawlStats.                                                         *)
(***************************************************************************)
\* the process calls that completed
Emitted == {k \in DOMAIN process_calls : process_calls[k].outcome = "ok"}

\* C9: when crawl() returns normally, pages_discovered is the final size of
\* visited, which is 1 plus the number of add_page calls, and pages_processed
\* is the number of pages fetched and passed to the processor.
C9_StatsCorrect ==
  pc = "returned" =>
    /\ stats.pages_discovered = Cardinality(visited)
    /\ stats.pages_discovered = 1 + Len(add_page_calls)
    /\ stats.pages_processed = Cardinality(Emitted)
    /\ stats.pages_processed =
         Cardinality({i \in DOMAIN get_page_calls : get_page_calls[i].resp = "ok"})

\* C9 witness: crawl() returned after processing two pages, discovering
\* three and skipping one that was not found
C9_Witness ==
  /\ pc = "returned"
  /\ stats = [pages_processed |-> 2, pages_discovered |-> 3]
  /\ \E i \in DOMAIN get_page_calls : get_page_calls[i].resp = "missing"

(***************************************************************************)
(* C10  Discovery is not cut off by the limit.                             *)
(***************************************************************************)
\* the step is a loop iteration whose get_links call returned a list
ExpansionStep ==
  /\ Len(get_links_calls') = Len(get_links_calls) + 1
  /\ get_links_calls'[Len(get_links_calls')].ok

\* an expansion adds every link of the list to visited, whatever the limit
C10_ExpandStep ==
  ExpansionStep =>
    /\ visited' = visited \cup Range(links')
    /\ \A t \in Range(links') \ visited : \E e \in Range(queue') : e.page = t

\* Scenario C: wiki A -> [B, C], depth = 1, limit = 2, bfs
C10_ScenarioC ==
  ( /\ pc = "returned" /\ strategy = "bfs"
    /\ start_page = "A" /\ max_depth = 1 /\ limit = 2
    /\ get_page_calls = <<[title |-> "A", resp |-> "ok"], [title |-> "B", resp |-> "ok"]>>
    /\ get_links_calls = <<[title |-> "A", depth |-> 0, ok |-> TRUE]>>
    /\ links = <<"B", "C">> )
  => stats = [pages_processed |-> 2, pages_discovered |-> 3]

\* C10: when a page below max_depth is expanded, all its not yet visited links
\* are added to visited and counted in pages_discovered, also in the iteration
\* that brings pages_processed up to limit; wiki A -> [B, C], depth = 1,
\* limit = 2, bfs gives processed = 2 and discovered = 3.
C10_DiscoveryNotCutOff == [][C10_ExpandStep]_vars /\ []C10_ScenarioC

\* C10 witness: the iteration that reached the limit discovered two titles
\* that are never dequeued, and they are counted in the returned statistics
C10_Witness ==
  /\ pc = "returned"
  /\ stats.pages_processed = limit
  /\ Len(queue) >= 2
  /\ get_links_calls # <<>>
  /\ get_links_calls[Len(get_links_calls)].title = dequeued[Len(dequeued)].page
  /\ stats.pages_discovered = Len(dequeued) + Len(queue)
  /\ \A e \in Range(queue) : e.page \in Range(links)

(***************************************************************************)
(* C11  Termination.                                                       *)
(***************************************************************************)
\* crawl() has ended
Ended == pc \in {"returned", "raised"}

\* Scenario D: A links to B, B links back to A, depth beyond the graph
C11_ScenarioD ==
  ( /\ pc = "returned" /\ start_page = "A" /\ max_depth >= 2 /\ limit >= 2
    /\ get_page_calls = <<[title |-> "A", resp |-> "ok"], [title |-> "B", resp |-> "ok"]>>
    /\ get_links_calls = <<[title |-> "A", depth |-> 0, ok |-> TRUE],
                           [title |-> "B", depth |-> 1, ok |-> TRUE]>>
    /\ add_page_calls = <<[page |-> "B", depth |-> 1, by |-> "A"]>>
    /\ links = <<"A">> )
  => stats = [pages_processed |-> 2, pages_discovered |-> 2]

\* the work left: the titles not yet discovered and the entries not yet dequeued
Measure == Cardinality(Titles \ visited) + Len(queue)

\* a running crawl() can always take its next step (every call it makes
\* returns), and the work left is a natural number
C11_CanStep == pc = "loop" => (Measure >= 0 /\ ENABLED (Iterate \/ Return))

\* every step of a running crawl() ends it or leaves less work
C11_Decreases == pc = "loop" => (Ended' \/ (pc' = "loop" /\ Measure' < Measure))

\* C11: for every link graph (cycles and self-links included), every
\* max_depth and limit and either strategy, a crawl() that was called ends,
\* provided every call it makes returns: it can always step, and each step
\* ends it or strictly decreases the work left; A -> [B], B -> [A] ends with
\* discovered = 2 and processed = 2.
C11_Terminates == []C11_CanStep /\ [][C11_Decreases]_vars /\ []C11_ScenarioD

\* C11 witness: a crawl over a cycle (a page linking back to the start page,
\* which was not enqueued again) returned with an empty frontier
C11_Witness ==
  /\ pc = "returned" /\ queue = <<>>
  /\ start_page \in Range(links)
  /\ Len(get_links_calls) = 2
  /\ stats = [pages_processed |-> 2, pages_discovered |-> 2]

(***************************************************************************)
(* C12  Link-fetch failure.                                                *)
(***************************************************************************)
\* the step is a loop iteration during whose get_links call a request failed
LinkFailureStep ==
  /\ Len(get_links_calls') = Len(get_links_calls) + 1
  /\ ~get_links_calls'[Len(get_links_calls')].ok

\* what such an iteration does
C12_FailureStep ==
  LinkFailureStep =>
    /\ pc' = "loop"
    /\ visited' = visited
    /\ add_page_calls' = add_page_calls
    /\ Len(queue') = Len(queue) - 1
    /\ Range(queue') = Range(queue) \ {dequeued'[Len(dequeued')]}
    /\ pages_processed' = pages_processed + 1
    /\ Len(process_calls') = Len(process_calls) + 1
    /\ process_calls'[Len(process_calls')] =
         [title |-> get_links_calls'[Len(get_links_calls')].title, outcome |-> "ok"]

\* C12: when get_links fails for a page (also on a later result page, after
\* titles were collected), the failure stays inside crawl(), no title of that
\* page is enqueued, visited and the rest of the frontier are unchanged, the
\* page stays counted in pages_processed and the crawl goes on.
C12_LinkFailureAbsorbed == [][C12_FailureStep]_vars

\* C12 witness: after a failed get_links the crawl went on to fetch and
\* process another frontier entry
C12_Witness ==
  /\ pc = "loop"
  /\ \E i \in DOMAIN get_links_calls :
       /\ ~get_links_calls[i].ok
       /\ \E k \in DOMAIN process_calls :
            /\ k > 1
            /\ process_calls[k - 1].title = get_links_calls[i].title
            /\ process_calls[k].outcome = "ok"

(***************************************************************************)
(* C13  Sink failure.                                                      *)
(***************************************************************************)
\* the step is a loop iteration whose processor.process call raised
SinkFailureStep ==
  /\ Len(process_calls') = Len(process_calls) + 1
  /\ process_calls'[Len(process_calls')].outcome = "raise"

\* the exception leaves crawl() at once, and nothing is called after it
C13_FailureStep ==
  /\ SinkFailureStep =>
       /\ pc' = "raised"
       /\ stats' = NoStats
       /\ get_links_calls' = get_links_calls
       /\ add_page_calls' = add_page_calls
       /\ visited' = visited
  /\ (\E k \in DOMAIN process_calls : process_calls[k].outcome = "raise") =>
       /\ get_page_calls' = get_page_calls
       /\ get_links_calls' = get_links_calls
       /\ process_calls' = process_calls
       /\ dequeued' = dequeued
       /\ stats' = NoStats

\* C13: when processor.process raises, the exception leaves crawl(): the
\* loop ends, no statistics are returned, and no further get_page, get_links
\* or process call is made (the failing page's links are not fetched).
C13_SinkFailureFatal == [][C13_FailureStep]_vars

\* C13 witness: the processor raised for a page below max_depth while entries
\* were waiting in the frontier; crawl() raised
C13_Witness ==
  /\ pc = "raised"
  /\ queue # <<>>
  /\ process_calls # <<>>
  /\ process_calls[Len(process_calls)].outcome = "raise"
  /\ dequeued[Len(dequeued)].depth < max_depth

(***************************************************************************)
(* C14  get_page failures.                                                 *)
(***************************************************************************)
\* the step is a loop iteration whose get_page request met a network error or
\* a response without the expected structure
FetchFailureStep ==
  /\ Len(get_page_calls') = Len(get_page_calls) + 1
  /\ get_page_calls'[Len(get_page_calls')].resp \in {"network", "malformed", "no_query"}

\* C14 as stated: when get_page meets a network error or a malformed response,
\* an error leaves crawl(): the page is not treated as not-found and the
\* crawl does not go on to other frontier entries.
C14_FetchFailurePropagates == [][FetchFailureStep => pc' = "raised"]_vars

(***************************************************************************)
(* C15  Preconditions.                                                     *)
(***************************************************************************)
\* the arguments of the running call violate the preconditions of crawl()
PreconditionViolated == max_depth < 0 \/ limit < 1 \/ start_page = ""

\* C15 as stated: a crawl() call with max_depth < 0, limit < 1 or an empty
\* start_page makes no get_page, get_links or process call and does not
\* return statistics like a normal crawl.
C15_PreconditionsRejected ==
  (pc # "idle" /\ PreconditionViolated) =>
    /\ get_page_calls = <<>>
    /\ process_calls = <<>>
    /\ get_links_calls = <<>>
    /\ pc # "returned"

(***************************************************************************)
(* C16  No re-fetch.                                                       *)
(***************************************************************************)
\* C16: within one crawl get_page and processor.process are each called at
\* most once per title; the start page is fetched exactly once (by the first
\* iteration), also when pages, or the start page itself, link to it.
C16_NoRefetch ==
  pc # "idle" =>
    /\ \A i, j \in DOMAIN get_page_calls :
         get_page_calls[i].title = get_page_calls[j].title => i = j
    /\ \A i, j \in DOMAIN process_calls :
         process_calls[i].title = process_calls[j].title => i = j
    /\ get_page_calls # <<>> =>
         {i \in DOMAIN get_page_calls : get_page_calls[i].title = start_page} = {1}

\* C16 witness: a page discovered from the start page and expanded after it
\* linked back to the start page, which was fetched once
C16_Witness ==
  /\ pc = "returned"
  /\ Len(get_page_calls) >= 2
  /\ Len(get_links_calls) = 2
  /\ get_links_calls[1].ok /\ get_links_calls[2].ok
  /\ start_page \in Range(links)
  /\ \E c \in Range(add_page_calls) : c.by = start_page
  /\ Cardinality({i \in DOMAIN get_page_calls : get_page_calls[i].title = start_page}) = 1

(***************************************************************************)
(* C17  Reaching the limit stops the crawl.                                *)
(***************************************************************************)
\* once pages_processed has reached limit the only step left is the return,
\* which takes nothing from the frontier and calls nothing; after the return
\* nothing is called
C17_StopStep ==
  /\ (pc = "loop" /\ pages_processed >= limit) =>
       /\ pc' = "returned"
       /\ stats' = [pages_processed |-> pages_processed,
                    pages_discovered |-> Cardinality(visited)]
       /\ queue' = queue
       /\ dequeued' = dequeued
       /\ get_page_calls' = get_page_calls
       /\ process_calls' = process_calls
       /\ get_links_calls' = get_links_calls
  /\ pc = "returned" =>
       /\ dequeued' = dequeued
       /\ get_page_calls' = get_page_calls
       /\ process_calls' = process_calls

\* C17: after the iteration in which pages_processed reaches limit no entry is
\* dequeued and no get_page or process call is made; the entries left in the
\* frontier are dropped and crawl() returns although the frontier is not
\* empty, without finishing the current depth level.
C17_LimitStops == [][C17_StopStep]_vars

\* C17 witness: crawl() returned at the limit with an entry left in the
\* frontier at the depth of the entry dequeued last
C17_Witness ==
  /\ pc = "returned" /\ limit >= 1
  /\ pages_processed = limit
  /\ \E e \in Range(queue) : e.depth = dequeued[Len(dequeued)].depth
  /\ Len(dequeued) = Len(get_page_calls)

(***************************************************************************)
(* C18  Strategy contract.                                                 *)
(***************************************************************************)
\* when title t was inserted in the frontier: 0 for the start page, else the
\* number of its add_page call
InsIdx(t) == IF t = start_page THEN 0 ELSE AddIdx(t)

\* C18: BreadthFirstStrategy.get_next removes and returns the oldest inserted
\* entry, DepthFirstStrategy.get_next the most recently inserted one; each
\* removes exactly one entry and leaves the others in their order; add_page of
\* both strategies appends (title, depth) at the tail.  (The frontier is kept
\* in insertion order, so the head is the oldest and the tail the newest.)
C18_StrategyContract ==
  pc # "idle" =>
    /\ \A i, j \in DOMAIN queue : i < j => InsIdx(queue[i].page) < InsIdx(queue[j].page)
    /\ \A t \in Titles, d \in 0 .. (MaxDepth + 1) :
         LET b == BreadthFirst_add_page(queue, t, d)
             f == DepthFirst_add_page(queue, t, d)
         IN /\ b = f
            /\ Len(b) = Len(queue) + 1
            /\ b[Len(b)] = [page |-> t, depth |-> d]
            /\ \A i \in DOMAIN queue : b[i] = queue[i]
    /\ queue # <<>> =>
         LET b == BreadthFirst_get_next(queue)
             f == DepthFirst_get_next(queue)
         IN /\ b.entry = queue[1]
            /\ Len(b.rest) = Len(queue) - 1
            /\ \A i \in DOMAIN b.rest : b.rest[i] = queue[i + 1]
            /\ f.entry = queue[Len(queue)]
            /\ Len(f.rest) = Len(queue) - 1
            /\ \A i \in DOMAIN f.rest : f.rest[i] = queue[i]

\* C18 witness: a frontier whose two ends differ (entries of different depth,
\* inserted by different expansions), after get_next and add_page have both
\* been used more than once
C18_Witness ==
  /\ pc = "loop"
  /\ Len(queue) = 2
  /\ queue[1].depth < queue[2].depth
  /\ Len(dequeued) >= 2
  /\ Len(add_page_calls) >= 3

(***************************************************************************)
(* C19  Breadth-first processes pages in discovery order.                  *)
(***************************************************************************)
\* the titles in the order they were added to visited
DiscoveryOrder ==
  <<start_page>> \o [i \in DOMAIN add_page_calls |-> add_page_calls[i].page]

\* the titles of ls not in vis, each once, in the order of ls
RECURSIVE NewInOrder(_, _)
NewInOrder(ls, vis) ==
  IF ls = <<>> THEN <<>>
  ELSE IF Head(ls) \in vis THEN NewInOrder(Tail(ls), vis)
  ELSE <<Head(ls)>> \o NewInOrder(Tail(ls), vis \cup {Head(ls)})

\* breadth-first: the i-th entry dequeued is the i-th title discovered, and
\* pages are passed to the processor in that order
C19_DequeuedInDiscoveryOrder ==
  (pc # "idle" /\ strategy = "bfs") =>
    /\ \A i \in DOMAIN dequeued : dequeued[i].page = DiscoveryOrder[i]
    /\ \A k1, k2 \in DOMAIN process_calls :
         k1 < k2 => DqPos(process_calls[k1].title) < DqPos(process_calls[k2].title)

\* the links of one page are discovered in the order get_links returned them
C19_LinksInOrder ==
  ExpansionStep =>
    [i \in 1 .. (Len(add_page_calls') - Len(add_page_calls)) |->
       add_page_calls'[Len(add_page_calls) + i].page] = NewInOrder(links', visited)

\* Scenario A: wiki A -> [B, C], all pages exist, depth = 1, limit above the
\* number of pages, bfs
C19_ScenarioA ==
  ( /\ pc = "returned" /\ strategy = "bfs"
    /\ start_page = "A" /\ max_depth = 1 /\ limit >= 3
    /\ get_links_calls = <<[title |-> "A", depth |-> 0, ok |-> TRUE]>>
    /\ links = <<"B", "C">>
    /\ \A i \in DOMAIN get_page_calls : get_page_calls[i].resp = "ok" )
  => /\ process_calls = <<[title |-> "A", outcome |-> "ok"],
                          [title |-> "B", outcome |-> "ok"],
                          [title |-> "C", outcome |-> "ok"]>>
     /\ stats = [pages_processed |-> 3, pages_discovered |-> 3]

\* C19: with BreadthFirstStrategy titles are dequeued (and existing pages
\* emitted) in exactly the order in which they were added to visited, the
\* links of one page in the order get_links returned them; wiki A -> [B, C],
\* depth = 1 gives emit order A, B, C with processed = 3 and discovered = 3.
C19_BfsDiscoveryOrder ==
  []C19_DequeuedInDiscoveryOrder /\ [][C19_LinksInOrder]_vars /\ []C19_ScenarioA

\* C19 witness: Scenario A ran to its end
C19_Witness ==
  /\ pc = "returned" /\ strategy = "bfs"
  /\ start_page = "A" /\ max_depth = 1
  /\ links = <<"B", "C">>
  /\ [i \in DOMAIN process_calls |-> process_calls[i].title] = <<"A", "B", "C">>

(***************************************************************************)
(* C20  No state shared between crawls.                                    *)
(***************************************************************************)
\* a crawl() call on a used instance starts from the state a call on a new
\* instance starts from
C20_FreshStart ==
  (pc \in {"returned", "raised"} /\ pc' = "loop") =>
    /\ visited' = {start_page'}
    /\ queue' = <<[page |-> start_page', depth |-> 0]>>
    /\ pages_processed' = 0
    /\ links' = <<>>
    /\ strategy' = strategy
    /\ stats' = NoStats

\* what a call on a used instance visits, counts and returns is made of the
\* calls of that crawl alone
C20_OwnCallsOnly ==
  (reused /\ pc # "idle") =>
    /\ visited = {start_page} \cup AddedTitles
    /\ Cardinality(Emitted) <= pages_processed
    /\ pages_processed <= Cardinality(Emitted) + 1
    /\ pc = "returned" =>
         stats = [pages_processed |-> Cardinality(Emitted),
                  pages_discovered |-> 1 + Len(add_page_calls)]

\* C20: a second crawl() call on the same instance starts from
\* visited = {start_page}, a frontier holding only (start_page, 0) and
\* pages_processed = 0, whatever the first call did (returned or raised), so
\* what it emits and returns is what a new instance would.
C20_NoSharedState == [][C20_FreshStart]_vars /\ []C20_OwnCallsOnly

\* C20 witness: a later crawl() call on a used instance returned after
\* processing fewer pages than it discovered
C20_Witness ==
  /\ reused /\ pc = "returned"
  /\ stats.pages_processed >= 1
  /\ stats.pages_discovered > stats.pages_processed

(***************************************************************************)
(* C21  Link pagination: get_links sends one request per result page of    *)
(* the server, each request after the first carrying the plcontinue token  *)
(* of the answer before it; it stops at the first answer without a token   *)
(* (no request is repeated, and the call ends as soon as the server omits  *)
(* the token); it returns the titles of all result pages, concatenated in  *)
(* the order the server sent them, where a page flagged missing or without *)
(* a 'links' key contributes nothing.                                      *)
(***************************************************************************)
\* the titles of the result pages r[1..n], page by page as the server sent them
RECURSIVE ServerTitles(_, _)
ServerTitles(r, n) ==
  IF n = 0 THEN <<>>
  ELSE LET before == ServerTitles(r, n - 1) IN
       IF r[n].kind = "json" /\ r[n].has_links /\ ~r[n].missing
       THEN before \o r[n].links ELSE before

\* one request per answer; the first without a token, each later one with
\* the token of the answer before it
C21_TokensChained ==
  /\ Len(gl_requests) = Len(gl_responses)
  /\ \A i \in DOMAIN gl_requests :
       gl_requests[i] = IF i = 1 THEN "None" ELSE gl_responses[i - 1].cont

\* every answer but the last carried a token; the call goes on exactly while
\* the last answer carries one, and has returned exactly when the last answer
\* is a page without one
C21_StopsAtFirstTokenless ==
  LET n == Len(gl_responses) IN
  /\ \A i \in 1 .. n - 1 : gl_responses[i].kind = "json" /\ gl_responses[i].cont # "None"
  /\ gl_pc = "loop" => (n = 0 \/ (gl_responses[n].kind = "json" /\ gl_responses[n].cont # "None"))
  /\ gl_pc = "returned" <=> (n > 0 /\ gl_responses[n].kind = "json" /\ gl_responses[n].cont = "None")
  /\ gl_pc = "raised" <=> (n > 0 /\ gl_responses[n].kind # "json")

\* while the call runs the next request can be sent, and fewer than MaxPages
\* requests have been sent: the call ends with the answer that omits the token
C21_EndsWithServer ==
  gl_pc = "loop" => (Len(gl_requests) < MaxPages /\ ENABLED GetLinksRequest)

C21_Concatenation ==
  gl_pc = "returned" => gl_result = ServerTitles(gl_responses, Len(gl_responses))

C21_Pagination ==
  /\ C21_TokensChained
  /\ C21_StopsAtFirstTokenless
  /\ C21_EndsWithServer
  /\ C21_Concatenation

\* a call that returned after two result pages, the second requested with the
\* token "t2" of the first, both pages with titles, one page's titles dropped
\* because it is flagged missing
C21_Witness ==
  /\ gl_pc = "returned"
  /\ Len(gl_requests) = 2
  /\ gl_requests[2] = "t2"
  /\ gl_responses[1].links = <<"B", "C">>
  /\ gl_responses[1].missing
  /\ gl_responses[2].links = <<"C", "B">>
  /\ gl_result = <<"C", "B">>

(***************************************************************************)
(* C22  File sink keeps every page: for every page handed to the file      *)
(* sink, the file named by the transform of its title holds that page's    *)
(* whole content, and there are as many files as pages handed over.        *)
(* Fails: two titles that differ only in ' ', '/' and '_' share one file.  *)
(***************************************************************************)
C22_FileSinkKeepsEveryPage ==
  /\ \A k \in DOMAIN file_calls :
       /\ safe_name(file_calls[k].title) \in DOMAIN files
       /\ files[safe_name(file_calls[k].title)] = file_calls[k].content
  /\ Cardinality(DOMAIN files) = Len(file_calls)

(***************************************************************************)
(* C23  Console sink truncation: each call echoes the header of the page   *)
(* and then, for a content of more than 500 characters, its first 500      *)
(* characters followed by "...", and for any other content (exactly 500    *)
(* characters included) the content unchanged.                             *)
(***************************************************************************)
C23_ConsoleTruncation ==
  /\ Len(console) = 2 * Len(console_calls)
  /\ \A k \in DOMAIN console_calls :
       LET c == console_calls[k].content
           out == console[2 * k]
       IN
       /\ console[2 * k - 1][2] = console_calls[k].title
       /\ Len(c) <= 500 => out = c
       /\ Len(c) > 500 =>
            /\ Len(out) = 503
            /\ \A i \in 1 .. 500 : out[i] = c[i]
            /\ \A i \in 501 .. 503 : out[i] = "."

\* a content of exactly 500 characters echoed whole, then one of 501
\* characters echoed cut
C23_Witness ==
  /\ Len(console_calls) = 2
  /\ Len(console_calls[1].content) = 500
  /\ Len(console[2]) = 500
  /\ Len(console_calls[2].content) = 501
  /\ Len(console[4]) = 503

(***************************************************************************)
(* C24  Frontier/VisitedSet accounting: whenever the loop condition is     *)
(* evaluated, every title in the frontier is in visited, the titles in the *)
(* frontier are pairwise distinct, and |visited| = |frontier| + number of  *)
(* entries dequeued so far; visited never shrinks during a crawl, and      *)
(* pages_processed <= number of entries dequeued <= |visited|.             *)
(***************************************************************************)
C24_Accounts ==
  pc # "idle" =>
    /\ \A i \in DOMAIN queue : queue[i].page \in visited
    /\ \A i, j \in DOMAIN queue : queue[i].page = queue[j].page => i = j
    /\ Cardinality(visited) = Len(queue) + Len(dequeued)
    /\ pages_processed <= Len(dequeued)
    /\ Len(dequeued) <= Cardinality(visited)

C24_VisitedGrows == pc = "loop" => visited \subseteq visited'

C24_Accounting == []C24_Accounts /\ [][C24_VisitedGrows]_vars

\* the loop condition is about to be evaluated with one entry in the
\* frontier, three entries dequeued (one of them not found) and four titles known
C24_Witness ==
  /\ pc = "loop"
  /\ Len(queue) = 1
  /\ Len(dequeued) = 3
  /\ pages_processed = 2
  /\ Cardinality(visited) = 4

(***************************************************************************)
(* Reachability in the wiki that is crawled                                *)
(***************************************************************************)
\* the links of the pages that exist and whose links can be fetched
Edges(t) == IF wiki[t].exists /\ ~wiki[t].fails THEN Range(wiki[t].links) ELSE {}

\* the titles at most k link hops from start_page
RECURSIVE Within(_)
Within(k) ==
  IF k <= 0 THEN {start_page}
  ELSE LET W == Within(k - 1) IN W \cup UNION {Edges(t) : t \in W}

\* the shortest number of link hops from start_page to a title that can be reached
Dist(t) ==
  CHOOSE k \in 0 .. Cardinality(WikiTitles) :
    t \in Within(k) /\ (k = 0 \/ t \notin Within(k - 1))

\* the existing pages at most k link hops from start_page over existing pages
RECURSIVE Through(_)
Through(k) ==
  IF k <= 0 THEN {t \in {start_page} : wiki[t].exists}
  ELSE LET W == Through(k - 1) IN
       W \cup {u \in UNION {Edges(t) : t \in W} : wiki[u].exists}

\* the titles handed to the processor
EmittedTitles == {process_calls[k].title : k \in Emitted}

\* every request for links succeeds
LinksAlwaysFetched == \A t \in WikiTitles : ~wiki[t].fails

\* every page is there
AllPagesExist == \A t \in WikiTitles : wiki[t].exists

(***************************************************************************)
(* C25  Breadth-first depths are shortest distances: with                  *)
(* BreadthFirstStrategy the depth recorded for every enqueued title is its *)
(* shortest link-hop distance from start_page in the graph whose edges are *)
(* the links of the pages that exist and whose link fetch succeeds, for    *)
(* every max_depth and limit.                                              *)
(***************************************************************************)
C25_BfsDepthIsDistance ==
  (strategy = "bfs" /\ pc # "idle") =>
    \A e \in Entries : e.page \in Within(e.depth) /\ e.depth = Dist(e.page)

\* a breadth-first crawl has returned from a wiki in which E is two hops from
\* A over B and three hops over C and D; E was enqueued at depth 2
C25_Witness ==
  /\ strategy = "bfs"
  /\ pc = "returned"
  /\ max_depth = 3
  /\ wiki["A"].links = <<"B", "C">>
  /\ wiki["B"].links = <<"E">>
  /\ wiki["C"].links = <<"D">>
  /\ wiki["D"].links = <<"E">>
  /\ [page |-> "E", depth |-> 2] \in Entries

(***************************************************************************)
(* C26  Breadth-first completeness within depth: with BreadthFirstStrategy,*)
(* when limit is at least the number of reachable pages and every link     *)
(* fetch succeeds, the pages emitted are exactly the existing pages that   *)
(* can be reached from start_page in at most max_depth link hops through   *)
(* existing pages.                                                         *)
(***************************************************************************)
C26_BfsComplete ==
  (/\ strategy = "bfs"
   /\ pc = "returned"
   /\ LinksAlwaysFetched
   /\ limit >= Cardinality(Through(max_depth)))
    => EmittedTitles = Through(max_depth)

\* a breadth-first crawl has returned from a small wiki where B is missing
\* and C, reached from A, links back to A and to B
C26_Witness ==
  /\ strategy = "bfs"
  /\ pc = "returned"
  /\ LinksAlwaysFetched
  /\ limit >= Cardinality(Through(max_depth))
  /\ max_depth = 2
  /\ ~wiki["B"].exists
  /\ wiki["A"].links = <<"B", "C">>
  /\ wiki["C"].links = <<"A", "B">>
  /\ EmittedTitles = {"A", "C"}

(***************************************************************************)
(* C27  Depth-first completeness within depth: with DepthFirstStrategy,    *)
(* when limit is at least the number of reachable pages, every page exists *)
(* and every link fetch succeeds, every page that can be reached from      *)
(* start_page in at most max_depth link hops is emitted (the same set as   *)
(* under BreadthFirstStrategy).                                            *)
(* Fails for max_depth >= 3: a page first enqueued along a longer path     *)
(* keeps that depth and is not expanded.  What holds: the pages emitted    *)
(* are all within max_depth hops, and they are all of them when            *)
(* max_depth <= 2.                                                         *)
(***************************************************************************)
C27_DfsComplete ==
  (/\ strategy = "dfs"
   /\ pc = "returned"
   /\ AllPagesExist
   /\ LinksAlwaysFetched
   /\ limit >= Cardinality(Within(max_depth)))
    => EmittedTitles = Within(max_depth)

C27_DfsCompleteToDepthTwo ==
  (/\ strategy = "dfs"
   /\ pc = "returned"
   /\ AllPagesExist
   /\ LinksAlwaysFetched
   /\ limit >= Cardinality(Within(max_depth)))
    => /\ EmittedTitles \subseteq Within(max_depth)
       /\ max_depth <= 2 => EmittedTitles = Within(max_depth)

\* a depth-first crawl with max_depth 2 has returned from a wiki of six
\* pages, all within two hops of A, and has emitted them all
C27_Witness ==
  /\ strategy = "dfs"
  /\ pc = "returned"
  /\ AllPagesExist
  /\ LinksAlwaysFetched
  /\ limit >= Cardinality(Within(max_depth))
  /\ max_depth = 2
  /\ wiki["A"].links = <<"B", "C">>
  /\ wiki["B"].links = <<"D", "E">>
  /\ wiki["C"].links = <<"E", "F">>
  /\ EmittedTitles = WikiTitles


\* C28: for the same wiki responses, start page, depth, strategy and limit, the
\* inline loop of wikibot's crawl_command and WikiCrawlerService.crawl have made
\* the same get_page calls and the same get_links calls in the same order, have
\* emitted the same pages in the same order, have both ended or both not, and
\* once ended report the same pages_processed and pages_discovered
C28_SameCrawl ==
  /\ wikibot_pc = pc
  /\ wikibot_get_page_calls = get_page_calls
  /\ wikibot_get_links_calls = get_links_calls
  /\ wikibot_emitted = process_calls
  /\ wikibot_totals = stats

\* both crawls have ended after two pages were emitted, a page was skipped as
\* missing, a links request succeeded and another failed
C28_Witness ==
  /\ pc = "returned"
  /\ wikibot_pc = "returned"
  /\ wikibot_totals.pages_processed = 2
  /\ wikibot_totals.pages_discovered = 3
  /\ Len(wikibot_emitted) = 2
  /\ \E i \in DOMAIN wikibot_get_page_calls : wikibot_get_page_calls[i].resp = "missing"
  /\ \E i \in DOMAIN wikibot_get_links_calls : wikibot_get_links_calls[i].ok
  /\ \E i \in DOMAIN wikibot_get_links_calls : ~wikibot_get_links_calls[i].ok


\* C29: once crawl() has returned, crawl_command echoes 'Crawl stopped after
\* reaching limit' only if the crawl ended with entries left in the frontier
\* because pages_processed reached limit, and echoes 'Crawl complete. No more
\* pages to process within depth' whenever the frontier was exhausted
C29_ReportMatchesReason ==
  pc = "returned" =>
    /\ CompletionMessage(stats, limit) = "stopped" =>
         queue # <<>> /\ pages_processed >= limit
    /\ queue = <<>> => CompletionMessage(stats, limit) = "complete"


\* positions in auth_requests where a login attempt starts
LoginAttempts == {i \in DOMAIN auth_requests : auth_requests[i].kind = "login_token"}

\* the login attempt that starts at position i returned 'Success'
ReturnedSuccess(i) ==
  /\ i + 1 \in DOMAIN auth_requests
  /\ auth_requests[i + 1].kind = "login"
  /\ auth_requests[i + 1].answer = "Success"

\* the most recent of the login attempts in S returned 'Success'
LastOfReturnedSuccess(S) ==
  /\ S # {}
  /\ ReturnedSuccess(CHOOSE i \in S : \A j \in S : j <= i)

\* every CSRF-token request and every edit request was sent while
\* is_authenticated() was true
SentAuthenticated ==
  \A i \in DOMAIN auth_requests :
    auth_requests[i].kind \in {"csrf_token", "edit"} => auth_requests[i].authed

\* edit_page called while unauthenticated has called login, and if login
\* returned False (it failed, or there are no credentials) edit_page raised
\* and sent no CSRF-token request and no edit request
RefusedWithoutLogin ==
  /\ last_edit # NoEdit /\ ~last_edit.was_authenticated => last_edit.login # "not called"
  /\ last_edit # NoEdit /\ ~last_edit.was_authenticated /\ ~credentials =>
       last_edit.login = "False"
  /\ last_edit.login = "False" =>
       /\ last_edit.result = "raise"
       /\ \A i \in DOMAIN auth_requests :
            i >= last_edit.first => auth_requests[i].kind \notin {"csrf_token", "edit"}

\* C30 as stated: CSRF-token and edit requests are sent only while
\* is_authenticated() is true; edit_page called while unauthenticated first
\* attempts login and raises without a token or edit request if that fails;
\* and is_authenticated() is true exactly when the most recent login attempt
\* that reached the server returned 'Success'
C30_EditsNeedSession ==
  /\ SentAuthenticated
  /\ RefusedWithoutLogin
  /\ logged_in <=>
       LastOfReturnedSuccess({i \in LoginAttempts : auth_requests[i].answer # "unreachable"})

\* C30 amended: the same, with is_authenticated() true exactly when the most
\* recent login attempt that sent a request, whether or not the request reached
\* the server, returned 'Success'
C30_EditsNeedSessionOfLastAttempt ==
  /\ SentAuthenticated
  /\ RefusedWithoutLogin
  /\ logged_in <=> LastOfReturnedSuccess(LoginAttempts)

\* a session was opened, a later login attempt did not reach the server, and
\* edit_page, called unauthenticated, logged in again and sent the edit
C30_Witness ==
  /\ last_edit.was_authenticated = FALSE
  /\ last_edit.login = "True"
  /\ last_edit.result = "True"
  /\ logged_in
  /\ \E i, j \in LoginAttempts :
       /\ i < j
       /\ j < last_edit.first
       /\ ReturnedSuccess(i)
       /\ auth_requests[j].answer = "unreachable"

=============================================================================
